---- MODULE Spec2Model ----
(***************************************************************************)
(* Model of src/src/aquisition.py: class AquisitionDBStore and the poll    *)
(* loop under __main__.                                                    *)
(*                                                                         *)
(* Representation                                                          *)
(*  - Python None / "name not bound" is the empty sequence <<>>, a value x *)
(*    that is present is <<x>>.                                            *)
(*  - A FieldEntry {"fld": c, "val": v} is the record [fld |-> c,          *)
(*    val |-> v]; v is the whole number the val string spells.             *)
(*  - A Python float is kept as an exact whole number of 1/KWH units, so   *)
(*    float(v) = v * KWH and x / 1000 = x \div KWH lose nothing on the     *)
(*    inputs used here.                                                    *)
(*  - datetime.now().timestamp() is the number of the running cycle.       *)
(*  - A raised exception is the record [type, line]; line is the source    *)
(*    line that raises it.                                                 *)
(***************************************************************************)
EXTENDS Integers, Sequences, FiniteSets, TLC

VARIABLES
    pc,                 \* position of the poll loop (lines 400-411)
    cycle,              \* number of the running cycle: the sleeps so far (the clock)
    dtu_data,           \* self.dtu_data
    tasmota_data,       \* self.tasmota_data
    conn,               \* what became of dump_to_db's connection this cycle
    exc,                \* the exception travelling to / caught by the loop
    inverter_data,      \* committed rows of table inverter_data
    inverter_sum_data,  \* committed rows of table inverter_sum_data
    energy_meter_data,  \* committed rows of table energy_meter_data
    ret                 \* result of the last direct call of a decoder method

vars == <<pc, cycle, dtu_data, tasmota_data, conn, exc,
          inverter_data, inverter_sum_data, energy_meter_data, ret>>

----------------------------------------------------------------------------
(* Bounds and program constants *)

\* the clock stops after this many sleeps
MaxSleeps == 1

\* longest entry list handed to a decoder method called directly
MaxEntries == 6

\* watt-hours per kilowatt-hour, the divisor of lines 223 and 238
KWH == 1000

----------------------------------------------------------------------------
(* Values *)

None == <<>>

Some(x) == <<x>>

NoExc == [type |-> "none", line |-> 0]

Exc(t, l) == [type |-> t, line |-> l]

Ok(v) == [exc |-> NoExc, value |-> v]

Raise(t, l) == [exc |-> Exc(t, l), value |-> 0]

E(c, v) == [fld |-> c, val |-> v]

float(v) == v * KWH

----------------------------------------------------------------------------
(* Decoder methods, lines 43-238.  data is the list dtu_data["inverter"],  *)
(* inverter the 0-based index the Python code is called with.              *)

num_inverter(data) == Len(data)

\* "for item in items: if item["fld"] == code: list.append(item["val"])",
\* from the k-th item on, list being what the earlier items gave
RECURSIVE CollectVals(_, _, _, _)
CollectVals(items, code, k, list) ==
    IF k > Len(items) THEN list
    ELSE CollectVals(items, code, k + 1,
                     IF items[k].fld = code THEN Append(list, items[k].val) ELSE list)

\* "sum(1 for item in items if item["fld"] == code)", from the k-th item on
RECURSIVE CountFld(_, _, _)
CountFld(items, code, k) ==
    IF k > Len(items) THEN 0
    ELSE (IF items[k].fld = code THEN 1 ELSE 0) + CountFld(items, code, k + 1)

\* "for item in items: if item["fld"] == code: name = item["val"]", from the
\* k-th item on, cur being the binding of name so far
RECURSIVE ScanLast(_, _, _, _)
ScanLast(items, code, k, cur) ==
    IF k > Len(items) THEN cur
    ELSE ScanLast(items, code, k + 1,
                  IF items[k].fld = code THEN Some(items[k].val) ELSE cur)

Pop(list) == SubSeq(list, 1, Len(list) - 1)

\* num_cells without the "- 1" of line 62
num_cells_count(data, inverter) ==
    IF inverter >= num_inverter(data) THEN Raise("IndexError", 59)
    ELSE Ok(CountFld(data[inverter + 1], "P_DC", 1))

num_cells(data, inverter) ==
    IF inverter >= num_inverter(data) THEN Raise("IndexError", 59)
    ELSE Ok(CountFld(data[inverter + 1], "P_DC", 1) - 1)

cell_power(data, inverter) ==
    IF inverter >= num_inverter(data) THEN Raise("IndexError", 77)
    ELSE LET cp == CollectVals(data[inverter + 1], "P_DC", 1, <<>>)
         IN  IF cp = <<>> THEN Raise("IndexError", 84) ELSE Ok(Pop(cp))

cell_voltage(data, inverter) ==
    IF inverter >= num_inverter(data) THEN Raise("IndexError", 99)
    ELSE LET cv == CollectVals(data[inverter + 1], "U_DC", 1, <<>>)
         IN  IF cv = <<>> THEN Raise("IndexError", 106) ELSE Ok(Pop(cv))

cell_current(data, inverter) ==
    IF inverter >= num_inverter(data) THEN Raise("IndexError", 121)
    ELSE LET cc == CollectVals(data[inverter + 1], "I_DC", 1, <<>>)
         IN  IF cc = <<>> THEN Raise("IndexError", 128) ELSE Ok(Pop(cc))

inverter_power(data, inverter) ==
    IF inverter >= num_inverter(data) THEN Raise("IndexError", 205)
    ELSE LET p == ScanLast(data[inverter + 1], "P_AC", 1, None)
         IN  IF p = None THEN Raise("UnboundLocalError", 208) ELSE Ok(p[1])

\* inverter_yield_day without the "/ 1000" of line 223
inverter_yield_day_raw(data, inverter) ==
    IF inverter >= num_inverter(data) THEN Raise("IndexError", 220)
    ELSE LET y == ScanLast(data[inverter + 1], "YieldDay", 1, None)
         IN  IF y = None THEN Raise("UnboundLocalError", 223)
             ELSE Ok(float(y[1]))

inverter_yield_day(data, inverter) ==
    IF inverter >= num_inverter(data) THEN Raise("IndexError", 220)
    ELSE LET y == ScanLast(data[inverter + 1], "YieldDay", 1, None)
         IN  IF y = None THEN Raise("UnboundLocalError", 223)
             ELSE Ok(float(y[1]) \div KWH)

inverter_yield_total(data, inverter) ==
    IF inverter >= num_inverter(data) THEN Raise("IndexError", 235)
    ELSE LET y == ScanLast(data[inverter + 1], "YieldTotal", 1, None)
         IN  IF y = None THEN Raise("UnboundLocalError", 238)
             ELSE Ok(float(y[1]) \div KWH)

----------------------------------------------------------------------------
(* The store.  A connection collects the rows of its open transaction in   *)
(* tx (one set per table); commit() adds them to the tables; a connection  *)
(* dropped without commit() loses them.  err is TRUE when cursor.execute   *)
(* raises sqlite3.Error, which every insert_* method catches and reports.  *)

EmptyTx == [inverter_data |-> {}, inverter_sum_data |-> {}, energy_meter_data |-> {}]

create_connection(available) == IF available THEN Some(EmptyTx) ELSE None

insert_inverter_data(tx, data, err) ==
    IF err THEN tx ELSE [tx EXCEPT !.inverter_data = @ \cup {data}]

insert_sum_data(tx, data, err) ==
    IF err THEN tx ELSE [tx EXCEPT !.inverter_sum_data = @ \cup {data}]

insert_energy_meter_data(tx, data, err) ==
    IF err THEN tx ELSE [tx EXCEPT !.energy_meter_data = @ \cup {data}]

----------------------------------------------------------------------------
(* dump_to_db, lines 329-389 *)

get(d, k, default) == IF k \in DOMAIN d THEN d[k] ELSE default

Truthy(opt) == opt # None /\ DOMAIN opt[1] # {}

\* lines 340-342
LoopStart(tx) ==
    [tx |-> tx, power_sum |-> 0, yield_day_sum |-> 0, yield_total_sum |-> 0,
     exc |-> NoExc]

\* lines 345-358: the iterations inverter, inverter + 1, ... of the for loop
RECURSIVE InverterLoop(_, _, _, _, _)
InverterLoop(data, inverter, st, now, failInv) ==
    IF inverter >= num_inverter(data) THEN st
    ELSE LET p  == inverter_power(data, inverter)
             yd == inverter_yield_day(data, inverter)
             yt == inverter_yield_total(data, inverter)
             nc == num_cells(data, inverter)
         IN  IF p.exc # NoExc THEN [st EXCEPT !.exc = p.exc]
             ELSE IF yd.exc # NoExc THEN [st EXCEPT !.exc = yd.exc]
             ELSE IF yt.exc # NoExc THEN [st EXCEPT !.exc = yt.exc]
             ELSE IF nc.exc # NoExc THEN [st EXCEPT !.exc = nc.exc]
             ELSE LET row == [timestamp |-> now, inverter_number |-> inverter,
                              num_cells |-> nc.value, inverter_power |-> p.value,
                              yield_day |-> yd.value, yield_total |-> yt.value]
                  IN  InverterLoop(data, inverter + 1,
                        [tx |-> insert_inverter_data(st.tx, row, inverter \in failInv),
                         power_sum |-> st.power_sum + float(p.value),
                         yield_day_sum |-> st.yield_day_sum + yd.value,
                         yield_total_sum |-> st.yield_total_sum + yt.value,
                         exc |-> NoExc],
                        now, failInv)

\* lines 364-373: the meter block; power_in stays unbound when it is skipped
MeterBlock(tx, tas, now, err) ==
    IF Truthy(tas)
    THEN LET inner == get(tas[1], "", <<>>)
             total_out == get(inner, "Total_out", 0)
             total_in == get(inner, "Total_in", 0)
             power_in == get(inner, "Power_in", 0)
             meter_number == get(inner, "Meter_Number", "")
             row == [timestamp |-> now, total_out |-> total_out,
                     total_in |-> total_in, power_in |-> power_in,
                     meter_number |-> meter_number]
         IN  [tx |-> insert_energy_meter_data(tx, row, err), power_in |-> Some(power_in)]
    ELSE [tx |-> tx, power_in |-> None]

Aborted(e) == [conn |-> "dropped", exc |-> e, commit |-> EmptyTx]

\* fail = [inv |-> the inverter indices whose insert raises sqlite3.Error,
\*         sum |-> the aggregate insert raises, meter |-> the meter insert raises]
dump_to_db(dtu, tas, now, available, fail) ==
    LET c == create_connection(available)
    IN  IF c = None
        THEN [conn |-> "None", exc |-> NoExc, commit |-> EmptyTx]       \* line 389
        ELSE IF dtu = None
        THEN Aborted(Exc("TypeError", 45))                              \* line 345
        ELSE LET st == InverterLoop(dtu[1], 0, LoopStart(c[1]), now, fail.inv)
             IN  IF st.exc # NoExc THEN Aborted(st.exc)
                 ELSE IF num_inverter(dtu[1]) = 0
                 THEN Aborted(Exc("UnboundLocalError", 361))            \* timestamp
                 ELSE LET sum_data == [timestamp |-> now, power_sum |-> st.power_sum,
                                       yield_day_sum |-> st.yield_day_sum,
                                       yield_total_sum |-> st.yield_total_sum]
                          tx1 == insert_sum_data(st.tx, sum_data, fail.sum)
                          m == MeterBlock(tx1, tas, now, fail.meter)
                      IN  [conn |-> "closed",                           \* 376-377
                           exc |-> IF m.power_in = None
                                   THEN Exc("UnboundLocalError", 383)   \* power_in
                                   ELSE NoExc,
                           commit |-> m.tx]

----------------------------------------------------------------------------
(* The two sources.  resp is what the HTTP GET of a cycle comes back with: *)
(* kind "ok" with the decoded JSON body, kind "HTTPError" (raise_for_status*)
(* fails) or kind "ConnectionError" (requests.get itself fails).           *)

\* lines 15-25: returns the new self.dtu_data and the exception that escapes
get_dtu_data(old, resp) ==
    IF resp.kind = "ok" THEN [dtu_data |-> Some(resp.json.inverter), exc |-> NoExc]
    ELSE IF resp.kind = "HTTPError" THEN [dtu_data |-> old, exc |-> NoExc]
    ELSE [dtu_data |-> old, exc |-> Exc(resp.kind, 18)]

\* lines 27-41: every requests.RequestException is caught and None returned;
\* a body without "StatusSNS" raises KeyError at line 36, which is not caught
get_tasmota_data(old, resp) ==
    IF resp.kind = "ok"
    THEN IF "StatusSNS" \in DOMAIN resp.json
         THEN [tasmota_data |-> Some(resp.json.StatusSNS), exc |-> NoExc]
         ELSE [tasmota_data |-> old, exc |-> Exc("KeyError", 36)]
    ELSE [tasmota_data |-> old, exc |-> NoExc]

----------------------------------------------------------------------------
(* Inputs of the poll loop *)

\* two cells and the inverter totals: P_AC 150 W, YieldDay 500 Wh
InvA ==
    << E("P_DC", 100), E("U_DC", 40), E("I_DC", 2),
       E("P_DC", 50),  E("U_DC", 38), E("I_DC", 1),
       E("P_DC", 150), E("U_DC", 78), E("I_DC", 3),
       E("YieldDay", 300), E("YieldDay", 200), E("YieldDay", 500),
       E("YieldTotal", 7000), E("YieldTotal", 9000), E("YieldTotal", 16000),
       E("P_AC", 150) >>

\* one cell and the inverter totals: P_AC 200 W, YieldDay 300 Wh
InvB ==
    << E("P_AC", 200), E("P_DC", 210), E("P_DC", 210),
       E("U_DC", 41), E("U_DC", 41), E("I_DC", 5), E("I_DC", 5),
       E("YieldDay", 300), E("YieldDay", 300),
       E("YieldTotal", 4000), E("YieldTotal", 4000) >>

\* InvB without its P_AC entry
InvNoPAC == SelectSeq(InvB, LAMBDA e : e.fld # "P_AC")

\* two P_DC entries, one U_DC entry, no I_DC entry
InvUnequal ==
    << E("P_DC", 60), E("P_DC", 60), E("U_DC", 39),
       E("P_AC", 55), E("YieldDay", 100), E("YieldTotal", 2000) >>

DtuPayloads ==
    { [inverter |-> l] :
        l \in { <<>>, <<InvA, InvB>>, <<InvNoPAC, InvB>>, <<InvA, InvUnequal>> } }

DtuResponses ==
    { [kind |-> "ok", json |-> j] : j \in DtuPayloads }
      \cup { [kind |-> k, json |-> <<>>] : k \in {"HTTPError", "ConnectionError"} }

EmptyDict == [k \in {} |-> 0]

MeterFull == [Total_out |-> 11, Total_in |-> 22, Power_in |-> 33, Meter_Number |-> "M1"]

MeterNoNumber == [Total_out |-> 11, Total_in |-> 22, Power_in |-> 33]

\* the values of "StatusSNS": the inner object under "", under a sensor id,
\* under "" without Meter_Number, and no inner object at all
StatusSNSValues ==
    { ("Time" :> "T") @@ ("" :> MeterFull),
      ("Time" :> "T") @@ ("MT681" :> MeterFull),
      ("Time" :> "T") @@ ("" :> MeterNoNumber),
      EmptyDict }

TasmotaResponses ==
    { [kind |-> "ok", json |-> [StatusSNS |-> d]] : d \in StatusSNSValues }
      \cup { [kind |-> "ok", json |-> [Status |-> 0]] }
      \cup { [kind |-> "RequestException", json |-> <<>>] }

NoInsertError == [inv |-> {}, sum |-> FALSE, meter |-> FALSE]

\* which inserts of a cycle with n inverters raise sqlite3.Error: none, or
\* one of them (one inverter row, the aggregate row or the meter row)
InsertErrors(n) ==
    { NoInsertError,
      [NoInsertError EXCEPT !.sum = TRUE],
      [NoInsertError EXCEPT !.meter = TRUE] }
      \cup { [NoInsertError EXCEPT !.inv = {i}] : i \in 0 .. n - 1 }

----------------------------------------------------------------------------
(* The poll loop, lines 400-411 *)

AquisitionDBStore == [dtu_data |-> None, tasmota_data |-> None]

\* a loop without the except clause of line 408 would end here
LoopExits == "exit"

LoopAfterExcept == "new"

Init ==
    /\ pc = "new"
    /\ cycle = 0
    /\ dtu_data = None
    /\ tasmota_data = None
    /\ conn = "unset"
    /\ exc = NoExc
    /\ inverter_data = {}
    /\ inverter_sum_data = {}
    /\ energy_meter_data = {}
    /\ ret = None

\* lines 400-403: the loop starts a pass on a new AquisitionDBStore object
NewCycle ==
    /\ pc = "new"
    /\ dtu_data' = AquisitionDBStore.dtu_data
    /\ tasmota_data' = AquisitionDBStore.tasmota_data
    /\ conn' = "unset"
    /\ pc' = "get_dtu"
    /\ UNCHANGED <<cycle, exc, inverter_data, inverter_sum_data, energy_meter_data, ret>>

\* line 404
GetDtuData ==
    /\ pc = "get_dtu"
    /\ \E resp \in DtuResponses :
          LET r == get_dtu_data(dtu_data, resp)
          IN  /\ dtu_data' = r.dtu_data
              /\ exc' = r.exc
              /\ pc' = IF r.exc = NoExc THEN "get_tasmota" ELSE "except"
    /\ UNCHANGED <<cycle, tasmota_data, conn, inverter_data, inverter_sum_data,
                   energy_meter_data, ret>>

\* line 405
GetTasmotaData ==
    /\ pc = "get_tasmota"
    /\ \E resp \in TasmotaResponses :
          LET r == get_tasmota_data(tasmota_data, resp)
          IN  /\ tasmota_data' = r.tasmota_data
              /\ exc' = r.exc
              /\ pc' = IF r.exc = NoExc THEN "dump" ELSE "except"
    /\ UNCHANGED <<cycle, dtu_data, conn, inverter_data, inverter_sum_data,
                   energy_meter_data, ret>>

\* line 406
DumpToDb ==
    /\ pc = "dump"
    /\ \E available \in BOOLEAN :
       \E fail \in InsertErrors(IF dtu_data = None THEN 0 ELSE num_inverter(dtu_data[1])) :
       \E r \in {dump_to_db(dtu_data, tasmota_data, cycle, available, fail)} :
              /\ conn' = r.conn
              /\ exc' = r.exc
              /\ inverter_data' = inverter_data \cup r.commit.inverter_data
              /\ inverter_sum_data' = inverter_sum_data \cup r.commit.inverter_sum_data
              /\ energy_meter_data' = energy_meter_data \cup r.commit.energy_meter_data
              /\ pc' = IF r.exc = NoExc THEN "sleep" ELSE "except"
    /\ UNCHANGED <<cycle, dtu_data, tasmota_data, ret>>

\* line 407: time.sleep(60) moves the clock on
Sleep ==
    /\ pc = "sleep"
    /\ cycle < MaxSleeps
    /\ cycle' = cycle + 1
    /\ pc' = "new"
    /\ UNCHANGED <<dtu_data, tasmota_data, conn, exc, inverter_data,
                   inverter_sum_data, energy_meter_data, ret>>

\* lines 408-411: the exception is printed and logged, then the loop sleeps
Except ==
    /\ pc = "except"
    /\ cycle < MaxSleeps
    /\ cycle' = cycle + 1
    /\ exc' = NoExc
    /\ pc' = LoopAfterExcept
    /\ UNCHANGED <<dtu_data, tasmota_data, conn, inverter_data,
                   inverter_sum_data, energy_meter_data, ret>>

Next == NewCycle \/ GetDtuData \/ GetTasmotaData \/ DumpToDb \/ Sleep \/ Except

Spec == Init /\ [][Next]_vars

\* the interpreter runs the loop's next statement whenever there is one
LiveSpec == Init /\ [][Next]_vars /\ WF_vars(Next)

----------------------------------------------------------------------------
(* Direct calls of the decoder methods on one inverter's entry list.  The  *)
(* entries carry any codes in any order; the value of an entry is its      *)
(* position, counted from the front or from the back.                      *)

DecodeCodes == {"P_DC", "U_DC", "I_DC", "P_AC"}

\* the entry lists of length n
DecodeInverters(n) ==
    { [k \in 1 .. n |-> E(codes[k], IF asc THEN k ELSE n + 1 - k)] :
        codes \in [1 .. n -> DecodeCodes], asc \in BOOLEAN }

DecodeInit ==
    /\ pc = "decode"
    /\ cycle = 0
    /\ \E n \in 0 .. MaxEntries : \E inv \in DecodeInverters(n) : dtu_data = Some(<<inv>>)
    /\ tasmota_data = None
    /\ conn = "unset"
    /\ exc = NoExc
    /\ inverter_data = {}
    /\ inverter_sum_data = {}
    /\ energy_meter_data = {}
    /\ ret = None

Returned(fn, inverter, result) ==
    /\ ret' = Some([fn |-> fn, inverter |-> inverter, result |-> result])
    /\ pc' = "returned"
    /\ UNCHANGED <<cycle, dtu_data, tasmota_data, conn, exc, inverter_data,
                   inverter_sum_data, energy_meter_data>>

CallNumCells ==
    /\ pc = "decode"
    /\ \E inverter \in 0 .. 1 :
          Returned("num_cells", inverter, num_cells(dtu_data[1], inverter))

CallCellPower ==
    /\ pc = "decode"
    /\ \E inverter \in 0 .. 1 :
          Returned("cell_power", inverter, cell_power(dtu_data[1], inverter))

CallCellVoltage ==
    /\ pc = "decode"
    /\ \E inverter \in 0 .. 1 :
          Returned("cell_voltage", inverter, cell_voltage(dtu_data[1], inverter))

CallCellCurrent ==
    /\ pc = "decode"
    /\ \E inverter \in 0 .. 1 :
          Returned("cell_current", inverter, cell_current(dtu_data[1], inverter))

DecodeNext == CallNumCells \/ CallCellPower \/ CallCellVoltage \/ CallCellCurrent

DecodeSpec == DecodeInit /\ [][DecodeNext]_vars

----------------------------------------------------------------------------
(* Vocabulary of the properties *)

\* dump_to_db has run in the current cycle
AfterDump == pc \in {"sleep", "except"} /\ conn # "unset"

InvRows(c) == { r \in inverter_data : r.timestamp = c }

SumRows(c) == { r \in inverter_sum_data : r.timestamp = c }

MeterRows(c) == { r \in energy_meter_data : r.timestamp = c }

Positions(inv, code) == { k \in 1 .. Len(inv) : inv[k].fld = code }

Count(inv, code) == Cardinality(Positions(inv, code))

\* the values of the entries of one code, in arrival order
ValuesOf(inv, code) ==
    LET sel == SelectSeq(inv, LAMBDA e : e.fld = code)
    IN  [k \in 1 .. Len(sel) |-> sel[k].val]

\* the value of the last entry of a code (the inverter-level total)
Total(inv, code) ==
    LET last == CHOOSE k \in Positions(inv, code) :
                    \A j \in Positions(inv, code) : j <= k
    IN  inv[last].val

RECURSIVE SumTotals(_, _)
SumTotals(data, code) ==
    IF data = <<>> THEN 0
    ELSE Total(Head(data), code) + SumTotals(Tail(data), code)

Decodable(inv) ==
    \A code \in {"P_AC", "YieldDay", "YieldTotal"} : Positions(inv, code) # {}

EqualCounts(inv) ==
    /\ Count(inv, "P_DC") = Count(inv, "U_DC")
    /\ Count(inv, "U_DC") = Count(inv, "I_DC")

HasInvRow(c, i) == \E r \in InvRows(c) : r.inverter_number = i

NoRowOf(c) == InvRows(c) = {} /\ SumRows(c) = {} /\ MeterRows(c) = {}

----------------------------------------------------------------------------
(* Properties *)

\* C1: for an inverter with N >= 1 entries of each of P_DC, U_DC and I_DC,
\* in any interleaving, num_cells returns N - 1 and cell_power, cell_voltage
\* and cell_current return the first N - 1 values of their code in arrival
\* order (the last entry of each code is left out); none of them raises.
C1_CellsExcludeTotal ==
    (ret # None /\ ret[1].inverter = 0) =>
        LET inv == dtu_data[1][1]
            N == Count(inv, "P_DC")
            r == ret[1].result
            fn == ret[1].fn
        IN  (N >= 1 /\ EqualCounts(inv)) =>
              /\ r.exc = NoExc
              /\ fn = "num_cells" => r.value = N - 1
              /\ fn = "cell_power" => r.value = SubSeq(ValuesOf(inv, "P_DC"), 1, N - 1)
              /\ fn = "cell_voltage" => r.value = SubSeq(ValuesOf(inv, "U_DC"), 1, N - 1)
              /\ fn = "cell_current" => r.value = SubSeq(ValuesOf(inv, "I_DC"), 1, N - 1)

\* C1 witness: cell_power has returned one cell value for an inverter with
\* two entries of each code whose first two entries are of different codes
C1_Witness ==
    /\ ret # None
    /\ ret[1].fn = "cell_power"
    /\ ret[1].inverter = 0
    /\ Count(dtu_data[1][1], "P_DC") = 2
    /\ EqualCounts(dtu_data[1][1])
    /\ dtu_data[1][1][1].fld # dtu_data[1][1][2].fld
    /\ ret[1].result.exc = NoExc
    /\ Len(ret[1].result.value) = 1

\* C2: the aggregate row of the running cycle has power_sum equal to the sum
\* of the inverters' P_AC values, and its yield sums times 1000 equal the sum
\* of the inverters' raw watt-hour YieldDay / YieldTotal totals (the division
\* by 1000 has been applied exactly once).
C2_AggregateSums ==
    \A r \in SumRows(cycle) :
        /\ dtu_data # None
        /\ r.power_sum = float(SumTotals(dtu_data[1], "P_AC"))
        /\ r.yield_day_sum * KWH = float(SumTotals(dtu_data[1], "YieldDay"))
        /\ r.yield_total_sum * KWH = float(SumTotals(dtu_data[1], "YieldTotal"))

\* C2 witness: powers 150 and 200 with yieldDay 500 and 300 have given an
\* aggregate row with power sum 350 and yield-day sum 0.8 (800 / 1000)
C2_Witness ==
    /\ dtu_data = Some(<<InvA, InvB>>)
    /\ \E r \in SumRows(cycle) :
          r.power_sum = float(350) /\ r.yield_day_sum * KWH = float(800)

\* C3: after dump_to_db the rows of the cycle are all-or-nothing: none of
\* them is committed, or every inverter row, the aggregate row and (when a
\* meter snapshot is present) the meter row are.
C3_AllOrNothing ==
    (AfterDump /\ dtu_data # None) =>
        \/ NoRowOf(cycle)
        \/ /\ \A i \in 0 .. num_inverter(dtu_data[1]) - 1 : HasInvRow(cycle, i)
           /\ SumRows(cycle) # {}
           /\ Truthy(tasmota_data) => MeterRows(cycle) # {}

\* C4: when the meter fetch failed and the inverter fetch brought a payload
\* of decodable inverters, dump_to_db commits every inverter row and the
\* aggregate row, writes no meter row and returns without raising.
C4_MeterFetchFails ==
    ( /\ AfterDump
      /\ conn # "None"
      /\ tasmota_data = None
      /\ dtu_data # None
      /\ num_inverter(dtu_data[1]) >= 1
      /\ \A i \in 1 .. Len(dtu_data[1]) : Decodable(dtu_data[1][i]) ) =>
        /\ \A i \in 0 .. num_inverter(dtu_data[1]) - 1 : HasInvRow(cycle, i)
        /\ SumRows(cycle) # {}
        /\ MeterRows(cycle) = {}
        /\ pc = "sleep"

\* C5: an inverter whose counts of P_DC, U_DC and I_DC entries are not all
\* equal gets no inverter row.
C5_UnequalCountsRejected ==
    (AfterDump /\ dtu_data # None) =>
        \A i \in 1 .. Len(dtu_data[1]) :
            ~EqualCounts(dtu_data[1][i]) => ~HasInvRow(cycle, i - 1)

\* C6: when an inverter of the cycle cannot be decoded, the cycle is not
\* aborted and the row of every other, decodable inverter is committed.
C6_BadInverterContained ==
    ( /\ AfterDump
      /\ conn # "None"
      /\ dtu_data # None
      /\ \E i \in 1 .. Len(dtu_data[1]) : ~Decodable(dtu_data[1][i]) ) =>
        /\ conn = "closed"
        /\ \A i \in 1 .. Len(dtu_data[1]) :
              Decodable(dtu_data[1][i]) => HasInvRow(cycle, i - 1)

\* C7: a cycle whose payload has an empty inverter list raises no error and
\* produces an aggregate with all three sums zero.
C7_EmptyListZeroSums ==
    (AfterDump /\ conn # "None" /\ dtu_data = Some(<<>>)) =>
        /\ pc = "sleep"
        /\ exc = NoExc
        /\ \A r \in SumRows(cycle) :
              r.power_sum = 0 /\ r.yield_day_sum = 0 /\ r.yield_total_sum = 0

\* C8: when create_connection yields no connection, the cycle writes no row
\* and the failure reaches the caller of dump_to_db as an error.
C8_StoreUnavailableSurfaced ==
    (AfterDump /\ conn = "None") =>
        /\ NoRowOf(cycle)
        /\ pc = "except"
        /\ exc # NoExc

\* C9: when StatusSNS holds the readings in an inner object, keyed by the
\* empty string or by a sensor id, the meter row of the cycle carries that
\* object's Total_out, Total_in, Power_in and Meter_Number, a missing field
\* being 0 or the empty string.
C9_MeterRowFromInnerObject ==
    (AfterDump /\ tasmota_data # None) =>
        \A key \in DOMAIN tasmota_data[1] \ {"Time"} :
        \A r \in MeterRows(cycle) :
            LET inner == tasmota_data[1][key]
                Field(f, d) == IF f \in DOMAIN inner THEN inner[f] ELSE d
            IN  /\ r.total_out = Field("Total_out", 0)
                /\ r.total_in = Field("Total_in", 0)
                /\ r.power_in = Field("Power_in", 0)
                /\ r.meter_number = Field("Meter_Number", "")

\* a fetch failed, an inverter could not be decoded or the store was
\* unavailable in the running cycle
CycleFailed ==
    \/ pc = "except"
    \/ pc \in {"get_tasmota", "dump"} /\ dtu_data = None
    \/ pc = "dump" /\ tasmota_data = None
    \/ pc = "sleep" /\ conn = "None"

\* C10: while the clock has not reached MaxSleeps, a cycle in which a fetch
\* failed, an inverter was malformed or the store was unavailable is followed
\* by the start of the next cycle, which holds no payload of the failed one.
C10_LoopContinues ==
    \A c \in 0 .. MaxSleeps - 1 :
        (cycle = c /\ CycleFailed) ~>
            (cycle = c + 1 /\ pc = "get_dtu" /\ dtu_data = None /\ tasmota_data = None)

\* C10 witness: the second cycle has started on an empty object after a first
\* cycle that committed nothing
C10_Witness ==
    /\ cycle = 1
    /\ pc = "get_dtu"
    /\ dtu_data = None
    /\ tasmota_data = None
    /\ NoRowOf(0)

====
